---------------------------- MODULE Spec2Model ----------------------------
(***************************************************************************)
(* Model of the Bayes belief vector of src/bayesian/__init__.py (the       *)
(* normalizing variant) and src/bayes.py (the raw variant), and of the     *)
(* event classifier built on it.                                           *)
(*                                                                         *)
(* Numbers.  The sources are Python 2 (print statements in src/bayes.py,   *)
(* __div__, list-valued map, float(...) to force true division), so a      *)
(* weight is either an int or a float and `1 / i` on an int is floor       *)
(* division.  A number is a record [int, n, d]: the Python type and the    *)
(* exact value n/d, n and d being naturals of any size (a little-endian    *)
(* sequence of limbs in base Base, no leading zero limb, <<>> is zero).    *)
(* Weights are non-negative, as the data model of the belief vector says.  *)
(* Floats keep their range: a float result at or below half the smallest   *)
(* positive double is zero (underflow).  Floats do not keep their          *)
(* precision: every other float operation is exact.                        *)
(***************************************************************************)
EXTENDS Integers, Sequences, FiniteSets, TLC

VARIABLES weights, labels, events_odds, op, arg, ret, err, raw, todo, steps

vars == <<weights, labels, events_odds, op, arg, ret, err, raw, todo, steps>>

---------------------------------------------------------------------------
(* Naturals of any size *)

Base == 10 * 100

Limb(a, i) == IF i \in DOMAIN a THEN a[i] ELSE 0

Max(a, b) == IF a >= b THEN a ELSE b

(* the limbs as a finished sequence *)
Limbs(f) == f \o <<>>

BigStrip(v) ==
  LET nz == {i \in DOMAIN v : v[i] # 0}
  IN IF nz = {} THEN <<>>
     ELSE SubSeq(v, 1, CHOOSE i \in nz : \A j \in nz : j <= i)

(* one pass of carries: every limb keeps its low part and takes the high   *)
(* part of the limb below                                                  *)
BigCarry(v) ==
  Limbs([i \in 1..(Len(v) + 1) |-> (Limb(v, i) % Base) + (Limb(v, i - 1) \div Base)])

(* the carry out of limb i when every limb is below 2 * Base - 1 *)
BigCarryOut(s, i) ==
  \E j \in 1..i : s[j] >= Base /\ \A k \in (j + 1)..i : s[k] = Base - 1

BigRipple(s) ==
  Limbs([i \in 1..(Len(s) + 1) |->
           (Limb(s, i) + (IF i > 1 /\ BigCarryOut(s, i - 1) THEN 1 ELSE 0)) % Base])

BigNorm(v) == BigStrip(BigRipple(BigCarry(BigCarry(BigCarry(v)))))

(* a natural below Base^3, and back *)
BigOfNat(k) ==
  IF k = 0 THEN <<>>
  ELSE IF k < Base THEN <<k>>
  ELSE IF k < Base * Base THEN <<k % Base, k \div Base>>
  ELSE <<k % Base, (k \div Base) % Base, k \div (Base * Base)>>

NatOfBig(a) == Limb(a, 1) + Base * Limb(a, 2) + Base * Base * Limb(a, 3)

BigAdd(a, b) ==
  IF Len(a) <= 2 /\ Len(b) <= 2 THEN BigOfNat(NatOfBig(a) + NatOfBig(b))
  ELSE BigStrip(BigRipple(Limbs([i \in 1..Max(Len(a), Len(b)) |-> Limb(a, i) + Limb(b, i)])))

(* the sum of short[i] * long[k - i + 1] for i in lo..hi *)
RECURSIVE BigConv(_, _, _, _, _)
BigConv(short, long, k, lo, hi) ==
  IF lo > hi THEN 0
  ELSE IF lo = hi THEN short[lo] * Limb(long, k - lo + 1)
  ELSE LET mid == (lo + hi) \div 2
       IN BigConv(short, long, k, lo, mid) + BigConv(short, long, k, mid + 1, hi)

BigMulR(a, b) ==
  BigNorm(Limbs([k \in 1..(Len(a) + Len(b) - 1) |-> BigConv(a, b, k, 1, Len(a))]))

BigMul(a, b) ==
  IF a = <<>> \/ b = <<>> THEN <<>>
  ELSE IF a = <<1>> THEN b
  ELSE IF b = <<1>> THEN a
  ELSE IF Len(a) + Len(b) <= 3 THEN BigOfNat(NatOfBig(a) * NatOfBig(b))
  ELSE IF Len(a) <= Len(b) THEN BigMulR(a, b) ELSE BigMulR(b, a)

BigLess(a, b) ==
  IF Len(a) # Len(b) THEN Len(a) < Len(b)
  ELSE \E i \in DOMAIN a : a[i] < b[i] /\ \A j \in (i + 1)..Len(a) : a[j] = b[j]

BigLeq(a, b) == ~ BigLess(b, a)

---------------------------------------------------------------------------
(* Python numbers *)

BigOne == <<1>>

PyInt(k) == [int |-> TRUE, n |-> BigOfNat(k), d |-> BigOne]

PyFloat(a, b) == [int |-> FALSE, n |-> BigOfNat(a), d |-> BigOfNat(b)]

IsZero(x) == x.n = <<>>

NumEq(x, y) ==
  IF x.d = y.d THEN x.n = y.n ELSE BigMul(x.n, y.d) = BigMul(y.n, x.d)

NumLess(x, y) ==
  IF x.d = y.d THEN BigLess(x.n, y.n)
  ELSE BigLess(BigMul(x.n, y.d), BigMul(y.n, x.d))

(* The smallest positive double is 2^-1074; a positive result at or below  *)
(* 2^-1075 rounds to 0.0.                                                  *)
(* 2^1075, limb by limb *)
UnderflowDen ==
  <<568, 989, 186, 482, 415, 615, 526, 12, 292, 17, 655, 372,
    64, 5, 461, 230, 829, 666, 104, 539, 717, 24, 113, 620,
    681, 112, 319, 298, 711, 206, 236, 397, 385, 849, 966, 14,
    124, 137, 490, 945, 356, 535, 479, 682, 432, 186, 484, 815,
    933, 728, 722, 132, 553, 848, 34, 843, 19, 477, 881, 799,
    26, 734, 953, 586, 771, 474, 617, 779, 822, 623, 633, 728,
    155, 374, 990, 248, 874, 402, 767, 920, 783, 693, 990, 135,
    679, 860, 54, 716, 802, 713, 236, 284, 528, 299, 113, 99,
    614, 834, 437, 693, 990, 704, 236, 621, 614, 506, 804, 404>>

Underflows(n, d) ==
  /\ n # <<>>
  /\ Len(d) >= Len(n) + Len(UnderflowDen) - 1
  /\ BigLeq(BigMul(n, UnderflowDen), d)

FloatOf(n, d) ==
  IF Underflows(n, d)
  THEN [int |-> FALSE, n |-> <<>>, d |-> d]
  ELSE [int |-> FALSE, n |-> n, d |-> d]

(* i * j *)
PyMul(x, y) ==
  IF x.int /\ y.int
  THEN [int |-> TRUE, n |-> BigMul(x.n, y.n), d |-> BigOne]
  ELSE FloatOf(BigMul(x.n, y.n), BigMul(x.d, y.d))

(* i + j *)
PyAdd(x, y) ==
  [int |-> x.int /\ y.int,
   n   |-> IF x.d = y.d THEN BigAdd(x.n, y.n)
           ELSE BigAdd(BigMul(x.n, y.d), BigMul(y.n, x.d)),
   d   |-> IF x.d = y.d THEN x.d ELSE BigMul(x.d, y.d)]

(* float(x) *)
PyFloatOf(x) == [int |-> FALSE, n |-> x.n, d |-> x.d]

(* i / total, total a non-zero float *)
PyDivFloat(x, total) ==
  IF x.d = total.d THEN FloatOf(x.n, total.n)
  ELSE FloatOf(BigMul(x.n, total.d), BigMul(x.d, total.n))

(* 1 / i, i non-zero: floor division on an int, true division on a float *)
PyRecip(i) ==
  IF i.int
  THEN (IF i.n = BigOne THEN PyInt(1) ELSE PyInt(0))
  ELSE FloatOf(i.d, i.n)

(* The floats of a list written over one denominator, in lowest terms     *)
(* when they fit three limbs: two lists of equal values are equal lists.   *)
RECURSIVE Gcd(_, _)
Gcd(a, b) == IF b = 0 THEN a ELSE Gcd(b, a % b)

RECURSIVE DenProduct(_, _, _)
DenProduct(w, i, skip) ==
  IF i = 0 THEN BigOne
  ELSE IF w[i].int \/ i = skip THEN DenProduct(w, i - 1, skip)
  ELSE BigMul(w[i].d, DenProduct(w, i - 1, skip))

RECURSIVE GcdOfNums(_, _, _)
GcdOfNums(N, i, g) ==
  IF i = 0 THEN g ELSE GcdOfNums(N, i - 1, Gcd(g, NatOfBig(N[i])))

OverOneDenominator(w) ==
  LET F    == {i \in DOMAIN w : ~ w[i].int}
      same == \A i, j \in F : w[i].d = w[j].d
      Reduced(N, D, g) ==
        [i \in DOMAIN w |->
           IF w[i].int THEN w[i]
           ELSE [int |-> FALSE, n |-> BigOfNat(NatOfBig(N[i]) \div g),
                 d |-> BigOfNat(NatOfBig(D) \div g)]]
      Over(N, D) ==
        IF Len(D) <= 3 /\ \A i \in F : Len(N[i]) <= 3
        THEN Reduced(N, D, GcdOfNums(N, Len(w), NatOfBig(D)))
        ELSE [i \in DOMAIN w |->
                IF w[i].int THEN w[i] ELSE [int |-> FALSE, n |-> N[i], d |-> D]]
  IN IF F = {} THEN w
     ELSE IF same
     THEN Over([i \in DOMAIN w |-> IF w[i].int THEN <<>> ELSE w[i].n],
               w[CHOOSE i \in F : TRUE].d)
     ELSE Over([i \in DOMAIN w |->
                  IF w[i].int THEN <<>> ELSE BigMul(w[i].n, DenProduct(w, Len(w), i))],
               DenProduct(w, Len(w), 0))

---------------------------------------------------------------------------
(* Values handed to Bayes(...): a Bayes object, a list, tuple or generator *)
(* of numbers, a list of (label, odds) tuples, a dict or a defaultdict.    *)

Bayes(w, l) == [kind |-> "bayes", w |-> w, labels |-> l]

List(v) == [kind |-> "list", v |-> v]

Pairs(v) == [kind |-> "pairs", v |-> v]

Dict(m) == [kind |-> "dict", m |-> m, dflt |-> FALSE]

DefaultDict(m) == [kind |-> "dict", m |-> m, dflt |-> TRUE]

None == [none |-> TRUE, v |-> <<>>]

Some(l) == [none |-> FALSE, v |-> l]

OK == "none"

(* The names used as labels, classes and dictionary keys, in sorted order *)
Names == <<"a", "b", "c", "d">>

Sorted(S) == SelectSeq(Names, LAMBDA x : x \in S)

Digits == <<"0", "1", "2", "3", "4", "5", "6", "7", "8", "9">>

RECURSIVE Str(_)
Str(i) == IF i < 10 THEN Digits[i + 1] ELSE Str(i \div 10) \o Digits[(i % 10) + 1]

Range(s) == {s[i] : i \in DOMAIN s}

(* small = 0.000001 *)
SmallDen == 1000000

small == PyFloat(1, SmallDen)

(* value[label] on a dict (KeyError when absent) or a defaultdict *)
DictHas(value, label) == label \in DOMAIN value.m

DictGet(value, label) == IF DictHas(value, label) THEN value.m[label] ELSE small

(* the defaultdict after value[label]: an absent key is inserted *)
DictAfterGet(value, label) ==
  IF value.dflt /\ ~ DictHas(value, label)
  THEN [value EXCEPT !.m = [k \in DOMAIN value.m \cup {label} |->
                              IF k = label THEN small ELSE value.m[k]]]
  ELSE value

RECURSIVE DictAfterGets(_, _)
DictAfterGets(value, ls) ==
  IF ls = <<>> THEN value
  ELSE DictAfterGets(DictAfterGet(value, Head(ls)), Tail(ls))

(* events_odds[event][class_] += 1 on the defaultdict of defaultdicts *)
AddEvent(tbl, event, class_) ==
  LET row == IF event \in DOMAIN tbl THEN tbl[event] ELSE DefaultDict([k \in {} |-> small])
      inc == [row EXCEPT !.m = [k \in DOMAIN row.m \cup {class_} |->
                                  IF k = class_ THEN PyAdd(DictGet(row, class_), PyInt(1))
                                  ELSE row.m[k]]]
  IN [e \in DOMAIN tbl \cup {event} |-> IF e = event THEN inc ELSE tbl[e]]

(* for event in event_extractor(instance): an instance is the sequence of  *)
(* events its extractor gives                                              *)
RECURSIVE AddInstance(_, _, _)
AddInstance(tbl, events, class_) ==
  IF events = <<>> THEN tbl
  ELSE AddInstance(AddEvent(tbl, Head(events), class_), Tail(events), class_)

(* for instance in instances *)
RECURSIVE AddInstances(_, _, _)
AddInstances(tbl, instances, class_) ==
  IF instances = <<>> THEN tbl
  ELSE AddInstances(AddInstance(tbl, Head(instances), class_), Tail(instances), class_)

(* for class_, instances in classes_instances.items(): the counts do not   *)
(* depend on the order of the items                                        *)
RECURSIVE AddClasses(_, _, _)
AddClasses(tbl, classes, classes_instances) ==
  IF classes = <<>> THEN tbl
  ELSE AddClasses(AddInstances(tbl, classes_instances[Head(classes)], Head(classes)),
                  Tail(classes), classes_instances)

extract_events_odds(classes_instances) ==
  AddClasses([e \in {} |-> DefaultDict([k \in {} |-> small])],
             Sorted(DOMAIN classes_instances), classes_instances)

(* Bayes.__init__(value, labels): the new object, or the error raised *)
BayesInit(value, lab) ==
  LET given  == ~ lab.none /\ lab.v # <<>>
      isdict == value.kind = "dict"
      unzip  == value.kind = "pairs" /\ lab.none /\ value.v # <<>>
      l1     == IF isdict THEN (IF given THEN lab.v ELSE Sorted(DOMAIN value.m))
                ELSE IF unzip THEN [i \in DOMAIN value.v |-> value.v[i][1]]
                ELSE IF lab.none THEN <<>> ELSE lab.v
      w      == IF isdict THEN [i \in DOMAIN l1 |-> DictGet(value, l1[i])]
                ELSE IF unzip THEN [i \in DOMAIN value.v |-> value.v[i][2]]
                ELSE IF value.kind = "bayes" THEN value.w
                ELSE value.v
      l2     == IF l1 # <<>> THEN l1 ELSE [i \in DOMAIN w |-> Str(i - 1)]
  IN IF isdict /\ ~ value.dflt /\ \E i \in DOMAIN l1 : ~ DictHas(value, l1[i])
     THEN [obj |-> Bayes(<<>>, <<>>), err |-> "KeyError"]
     ELSE [obj |-> Bayes(OverOneDenominator(w), l2), err |-> OK]

(* the value after Bayes(value, labels) has read it *)
ValueAfterInit(value, lab) ==
  IF value.kind = "dict"
  THEN DictAfterGets(value, IF ~ lab.none /\ lab.v # <<>> THEN lab.v
                            ELSE Sorted(DOMAIN value.m))
  ELSE value

(* a[i] for a key that is a label or a zero-based position *)
StrKey(s) == [str |-> TRUE, s |-> s, p |-> 0]

PosKey(p) == [str |-> FALSE, s |-> "", p |-> p]

(* labels.index(x), zero-based; ValueError when absent is the caller's *)
Index(s, x) == (CHOOSE i \in DOMAIN s : s[i] = x /\ \A j \in 1..(i - 1) : s[j] # x) - 1

getitem(self, i) ==
  IF i.str /\ i.s \notin Range(self.labels)
  THEN [ret |-> PyInt(0), err |-> "ValueError"]
  ELSE LET p == IF i.str THEN Index(self.labels, i.s) ELSE i.p
       IN IF p + 1 \in DOMAIN self.w
          THEN [ret |-> self.w[p + 1], err |-> OK]
          ELSE [ret |-> PyInt(0), err |-> "IndexError"]

setitem(self, i, value) ==
  IF i.str /\ i.s \notin Range(self.labels)
  THEN [self |-> self, err |-> "ValueError"]
  ELSE LET p == IF i.str THEN Index(self.labels, i.s) ELSE i.p
       IN IF p + 1 \in DOMAIN self.w
          THEN [self |-> [self EXCEPT !.w[p + 1] = value], err |-> OK]
          ELSE [self |-> self, err |-> "IndexError"]

cast(self, other) ==
  IF other.kind = "bayes"
  THEN [obj |-> other, err |-> OK]
  ELSE BayesInit(other, Some(self.labels))

(* 0 in self *)
HasZero(w) == \E i \in DOMAIN w : IsZero(w[i])

opposite(self) ==
  IF HasZero(self.w)
  THEN cast(self, List([i \in DOMAIN self.w |->
                          IF IsZero(self.w[i]) THEN PyInt(1) ELSE PyInt(0)]))
  ELSE cast(self, List([i \in DOMAIN self.w |-> PyRecip(self.w[i])]))

(* sum(self): 0 + self[0] + self[1] + ... *)
RECURSIVE SumFrom(_, _)
SumFrom(acc, w) == IF w = <<>> THEN acc ELSE SumFrom(PyAdd(acc, Head(w)), Tail(w))

Sum(w) == SumFrom(PyInt(0), w)

normalized(self) ==
  LET divided(total) ==
        IF self.w # <<>> /\ IsZero(total)
        THEN [obj |-> self, err |-> "ZeroDivisionError"]
        ELSE cast(self, List([i \in DOMAIN self.w |-> PyDivFloat(self.w[i], total)]))
  IN divided(PyFloatOf(Sum(self.w)))

Min(a, b) == IF a <= b THEN a ELSE b

(* self * other *)
mul(self, other) ==
  LET zipped(c) ==
        IF c.err # OK THEN c
        ELSE cast(self, List([i \in 1..Min(Len(self.w), Len(c.obj.w)) |->
                                PyMul(self.w[i], c.obj.w[i])]))
  IN zipped(cast(self, other))

(* self[:] = value, or the exception that left self as it was *)
Assigned(self, r) ==
  IF r.err # OK THEN [self |-> self, err |-> r.err]
  ELSE [self |-> Bayes(r.obj.w, self.labels), err |-> OK]

(* update of src/bayes.py: self[:] = self * event *)
raw_update(self, event) ==
  LET times(c) == IF c.err # OK THEN c ELSE mul(self, c.obj)
  IN Assigned(self, times(cast(self, event)))

(* an update that leaves the product as it is *)
update_unnormalized(self, event) == raw_update(self, event)

(* update of src/bayesian/__init__.py: self[:] = (self * event).normalized() *)
update(self, event) ==
  LET normal(p) == IF p.err # OK THEN p ELSE normalized(p.obj)
      times(c)  == IF c.err # OK THEN c ELSE normal(mul(self, c.obj))
  IN Assigned(self, times(cast(self, event)))

(* a turn that reads the row of every event, in the table or not *)
update_from_events_strict(self, event, tbl) ==
  IF event \in DOMAIN tbl
  THEN [self |-> update(self, tbl[event]).self, tbl |-> tbl,
        err |-> update(self, tbl[event]).err]
  ELSE [self |-> self, tbl |-> tbl, err |-> "KeyError"]

(* one turn of the loop of update_from_events: the vector, the table and   *)
(* the error after it                                                      *)
update_from_events_step(self, event, tbl) ==
  LET stepped(r) ==
        [self |-> r.self,
         tbl  |-> [tbl EXCEPT ![event] = ValueAfterInit(tbl[event], Some(self.labels))],
         err  |-> r.err]
  IN IF event \in DOMAIN tbl
     THEN stepped(update(self, tbl[event]))
     ELSE [self |-> self, tbl |-> tbl, err |-> OK]

RECURSIVE update_from_events(_, _, _)
update_from_events(self, events, tbl) ==
  LET rest(r) == IF r.err # OK THEN r
                 ELSE update_from_events(r.self, Tail(events), r.tbl)
  IN IF events = <<>>
     THEN [self |-> self, tbl |-> tbl, err |-> OK]
     ELSE rest(update_from_events_step(self, Head(events), tbl))

(* one turn of the loop of update_from_tests *)
update_from_tests_step(self, result, chance) ==
  LET updated(o) == IF o.err # OK THEN [self |-> self, err |-> o.err]
                    ELSE update(self, o.obj)
      opposed(c) == IF c.err # OK THEN c ELSE opposite(c.obj)
  IN IF result THEN update(self, chance)
     ELSE updated(opposed(cast(self, chance)))

RECURSIVE update_from_tests(_, _, _)
update_from_tests(self, tests_results, odds) ==
  LET rest(r) == IF r.err # OK THEN r
                 ELSE update_from_tests(r.self, Tail(tests_results), Tail(odds))
  IN IF tests_results = <<>> \/ odds = <<>>
     THEN [self |-> self, err |-> OK]
     ELSE rest(update_from_tests_step(self, Head(tests_results), Head(odds)))

(* max(normalized): the first of the largest items *)
RECURSIVE MaxFrom(_, _)
MaxFrom(best, w) ==
  IF w = <<>> THEN best
  ELSE MaxFrom(IF NumLess(best, Head(w)) THEN Head(w) ELSE best, Tail(w))

(* the last position of x instead of the first *)
IndexFromEnd(w, x, i) ==
  (CHOOSE k \in DOMAIN w :
     NumEq(w[k], x) /\ \A j \in (k + 1)..Len(w) : ~ NumEq(w[j], x)) - 1

(* normalized.index(max_value), zero-based *)
RECURSIVE IndexFrom(_, _, _)
IndexFrom(w, x, i) ==
  IF NumEq(w[i + 1], x) THEN i ELSE IndexFrom(w, x, i + 1)

NoLabel == [kind |-> "None", v |-> ""]

Label(l) == [kind |-> "label", v |-> l]

most_likely(self, cutoff) ==
  LET found(w, max_value) ==
        IF NumLess(cutoff, max_value)
        THEN [self |-> self,
              ret  |-> Label(self.labels[IndexFrom(w, max_value, 0) + 1]),
              err  |-> OK]
        ELSE [self |-> self, ret |-> NoLabel, err |-> OK]
      largest(n) ==
        IF n.err # OK THEN [self |-> self, ret |-> NoLabel, err |-> n.err]
        ELSE IF n.obj.w = <<>>
        THEN [self |-> self, ret |-> NoLabel, err |-> "ValueError"]
        ELSE found(n.obj.w, MaxFrom(Head(n.obj.w), Tail(n.obj.w)))
  IN largest(normalized(self))

---------------------------------------------------------------------------
(* The inputs the calls are drawn from *)

MaxN == 2

MaxRow == 2

MaxEvents == 2

MaxTests == 2

MaxSteps == 2

Vals == {PyInt(0), PyInt(2), PyFloat(1, 2)}

SeqsUpTo(S, k) == UNION {[1..n -> S] : n \in 0..k}

Reverse(s) == [i \in DOMAIN s |-> s[Len(s) + 1 - i]]

(* explicit labels, in an order that is not the sorted one *)
LabelsOf(n) == Reverse(SubSeq(Names, 1, n))

Rows == {List(v) : v \in SeqsUpTo(Vals, MaxRow)}

DictRows ==
  {Dict(m) : m \in [{"a", "b"} -> {PyInt(2), PyFloat(1, 2)}]}
  \cup {Dict(m) : m \in [{"a"} -> {PyInt(2)}]}

EventNames == {"pos", "neg", "unk"}

(* tables of odds by event: lists in label order, and a defaultdict by label *)
Tables ==
  {[e \in {"pos", "neg"} |->
      IF e = "pos" THEN List(<<PyInt(2), PyFloat(1, 2)>>)
      ELSE DefaultDict([k \in {"a"} |-> PyFloat(1, 2)])],
   [e \in {"pos"} |-> List(<<PyInt(0), PyInt(2)>>)]}

TestRows == {<<PyFloat(1, 2), PyInt(2)>>, <<PyInt(0), PyInt(2)>>}

Cutoffs == {PyFloat(0, 1), PyFloat(1, 2), PyFloat(1, 1)}

Keys == {StrKey(Names[i]) : i \in 1..(MaxN + 1)} \cup {PosKey(i) : i \in 0..MaxN}

NoArg == [none |-> TRUE]

NoRet == [kind |-> "None", v |-> ""]

self == Bayes(weights, labels)

(* the ways the examples construct a vector *)
Constructed ==
  {BayesInit(List(w), Some(LabelsOf(Len(w)))).obj : w \in SeqsUpTo(Vals, MaxN)}
  \cup {BayesInit(List(w), None).obj : w \in SeqsUpTo(Vals, MaxN)}
  \cup {BayesInit(Pairs([i \in DOMAIN w |-> <<LabelsOf(Len(w))[i], w[i]>>]), None).obj :
          w \in SeqsUpTo(Vals, MaxN)}
  \cup {BayesInit(Dict([k \in Range(SubSeq(Names, 1, n)) |-> f[k]]), None).obj :
          f \in [Range(Names) -> Vals], n \in 0..MaxN}

Init ==
  /\ \E b \in Constructed : weights = b.w /\ labels = b.labels
  /\ events_odds \in Tables
  /\ op = "init"
  /\ arg = NoArg
  /\ ret = NoRet
  /\ err = OK
  /\ raw = <<>>
  /\ todo = <<>>
  /\ steps = 0

(* a call on the vector returned: what it was, what it got, what came back *)
Returns(name, a, after, r, e) ==
  /\ steps' = steps + 1
  /\ op' = name
  /\ arg' = a
  /\ weights' = after.w
  /\ labels' = after.labels
  /\ ret' = r
  /\ err' = e
  /\ UNCHANGED <<raw, todo>>

Get ==
  /\ steps < MaxSteps
  /\ \E i \in Keys :
       \E r \in {getitem(self, i)} :
          /\ Returns("getitem", [i |-> i], self, [kind |-> "num", v |-> r.ret], r.err)
          /\ UNCHANGED events_odds

Set ==
  /\ steps < MaxSteps
  /\ \E i \in Keys, value \in Vals :
       \E r \in {setitem(self, i, value)} :
          /\ Returns("setitem", [i |-> i, value |-> value], r.self, NoRet, r.err)
          /\ UNCHANGED events_odds

Copy ==
  /\ steps < MaxSteps
  /\ \E r \in {BayesInit(self, None)} :
        /\ Returns("Bayes", [value |-> self], self, r.obj, r.err)
        /\ UNCHANGED events_odds

Opposite ==
  /\ steps < MaxSteps
  /\ \E r \in {opposite(self)} :
        /\ Returns("opposite", NoArg, self, r.obj, r.err)
        /\ UNCHANGED events_odds

(* (...).opposite().opposite() *)
OppositeOpposite ==
  /\ steps < MaxSteps
  /\ \E r \in {opposite(opposite(self).obj)} :
        /\ Returns("opposite.opposite", NoArg, self, r.obj, r.err)
        /\ UNCHANGED events_odds

Normalized ==
  /\ steps < MaxSteps
  /\ \E r \in {normalized(self)} :
        /\ Returns("normalized", NoArg, self,
                   IF r.err = OK THEN r.obj ELSE NoRet, r.err)
        /\ UNCHANGED events_odds

Update ==
  /\ steps < MaxSteps
  /\ \E event \in Rows \cup DictRows :
       \E r \in {update(self, event)} :
          /\ Returns("update", [event |-> event], r.self, NoRet, r.err)
          /\ UNCHANGED events_odds

UpdateFromEvents ==
  /\ steps < MaxSteps
  /\ \E events \in SeqsUpTo(EventNames, MaxEvents) :
       \E r \in {update_from_events(self, events, events_odds)} :
          /\ Returns("update_from_events", [events |-> events], r.self, NoRet, r.err)
          /\ events_odds' = r.tbl

UpdateFromTests ==
  /\ steps < MaxSteps
  /\ \E tests_results \in SeqsUpTo(BOOLEAN, MaxTests), odds \in SeqsUpTo(TestRows, MaxTests) :
       \E r \in {update_from_tests(self, tests_results,
                                    [i \in DOMAIN odds |-> List(odds[i])])} :
          /\ Returns("update_from_tests",
                     [tests_results |-> tests_results, odds |-> odds],
                     r.self, NoRet, r.err)
          /\ UNCHANGED events_odds

MostLikely ==
  /\ steps < MaxSteps
  /\ \E cutoff \in Cutoffs :
       \E r \in {most_likely(self, cutoff)} :
          /\ Returns("most_likely", [cutoff |-> cutoff], r.self, r.ret, r.err)
          /\ UNCHANGED events_odds

Next ==
  \/ Get
  \/ Set
  \/ Copy
  \/ Opposite
  \/ OppositeOpposite
  \/ Normalized
  \/ Update
  \/ UpdateFromEvents
  \/ UpdateFromTests
  \/ MostLikely

Spec == Init /\ [][Next]_vars

---------------------------------------------------------------------------
(* Properties of the calls on one vector *)

NoDuplicates(l) == \A i, j \in DOMAIN l : l[i] = l[j] => i = j

(* the value 1/x of a non-zero x *)
Reciprocal(x) == [int |-> FALSE, n |-> x.d, d |-> x.n]

SameValues(v, w) ==
  /\ Len(v) = Len(w)
  /\ \A i \in DOMAIN v : NumEq(v[i], w[i])

(* C1: update_from_tests with test results and odds rows of different      *)
(* lengths ends in an error; it never returns normally after using only    *)
(* the pairs the shorter sequence allows.                                  *)
C1_LengthMismatchRaises ==
  (op = "update_from_tests" /\ Len(arg.tests_results) # Len(arg.odds)) => err # OK

(* C2: after any sequence of calls the vector has as many weights as       *)
(* labels, and no label twice.                                             *)
C2_WeightsMatchLabels ==
  /\ Len(weights) = Len(labels)
  /\ NoDuplicates(labels)

(* C5: opposite() returns, under the receiver's labels, 1 for every zero   *)
(* and 0 for every non-zero weight when some weight is zero, and 1/w for   *)
(* every weight w otherwise; the receiver is as it was.                    *)
C5_OppositeRule ==
  [][op' = "opposite" =>
       /\ err' = OK
       /\ UNCHANGED <<weights, labels>>
       /\ ret'.labels = labels
       /\ SameValues(ret'.w,
                     [i \in DOMAIN weights |->
                        IF HasZero(weights)
                        THEN (IF IsZero(weights[i]) THEN PyInt(1) ELSE PyInt(0))
                        ELSE Reciprocal(weights[i])])]_vars

(* the product of the vector and a row sums to zero *)
ZeroProduct(v, event) ==
  /\ cast(v, event).err = OK
  /\ mul(v, cast(v, event).obj).err = OK
  /\ IsZero(Sum(mul(v, cast(v, event).obj).obj.w))

(* C6: normalized() of a vector whose weights sum to zero, the empty       *)
(* vector included, ends in an error and returns no vector, and an update  *)
(* whose product sums to zero ends in an error and leaves the weights as   *)
(* they were.                                                              *)
C6_ZeroSumRaises ==
  [][/\ (op' = "normalized" /\ IsZero(Sum(weights))) =>
          (err' # OK /\ ret' = NoRet)
     /\ (op' = "update" /\ ZeroProduct(self, arg'.event)) =>
          (err' # OK /\ weights' = weights)]_vars

(* C8: Bayes(b) for a vector b and no labels has the weights and the       *)
(* labels of b, in the same order.                                         *)
C8_CopyKeepsLabels ==
  op = "Bayes" => (err = OK /\ ret.w = weights /\ ret.labels = labels)

(* C9: for a vector without a zero weight, opposite().opposite() has its   *)
(* labels and every one of its weights.                                    *)
C9_OppositeTwice ==
  (op = "opposite.opposite" /\ ~ HasZero(weights)) =>
    (err = OK /\ ret.labels = labels /\ SameValues(ret.w, weights))

---------------------------------------------------------------------------
(* most_likely on vectors of up to MaxWeights weights *)

MaxWeights == 3

InitMostLikely ==
  /\ \E w \in SeqsUpTo(Vals, MaxWeights) :
       \E b \in {BayesInit(List(w), Some(LabelsOf(Len(w)))).obj} :
          weights = b.w /\ labels = b.labels
  /\ events_odds = [e \in {} |-> List(<<>>)]
  /\ op = "init"
  /\ arg = NoArg
  /\ ret = NoRet
  /\ err = OK
  /\ raw = <<>>
  /\ todo = <<>>
  /\ steps = 0

NextMostLikely == MostLikely

SpecMostLikely == InitMostLikely /\ [][NextMostLikely]_vars

(* the weight at i as a share of the sum *)
Share(w, i) == PyDivFloat(w[i], PyFloatOf(Sum(w)))

(* the first position holding the largest share *)
Top(w) ==
  CHOOSE i \in DOMAIN w :
    /\ \A j \in DOMAIN w : ~ NumLess(Share(w, i), Share(w, j))
    /\ \A j \in 1..(i - 1) : NumLess(Share(w, j), Share(w, i))

---------------------------------------------------------------------------
(* One update_from_events call on a constructed vector *)

EventTables ==
  {[e \in {"pos", "neg"} |->
      IF e = "pos" THEN List(<<PyInt(2), PyFloat(1, 2)>>)
      ELSE List(<<PyInt(0), PyInt(2)>>)],
   [e \in {"pos", "neg"} |->
      IF e = "pos" THEN DefaultDict([k \in {"a"} |-> PyFloat(1, 2)])
      ELSE List(<<PyInt(2)>>)]}

InitEvents ==
  /\ \E b \in Constructed : weights = b.w /\ labels = b.labels
  /\ events_odds \in EventTables
  /\ op = "init"
  /\ arg = NoArg
  /\ ret = NoRet
  /\ err = OK
  /\ raw = <<>>
  /\ todo = <<>>
  /\ steps = 0

NextEvents == op = "init" /\ UpdateFromEvents

SpecEvents == InitEvents /\ [][NextEvents]_vars

(* update with each row in turn, up to the first one that raises *)
RECURSIVE UpdateEach(_, _)
UpdateEach(v, rows) ==
  IF rows = <<>> THEN [self |-> v, err |-> OK]
  ELSE IF update(v, Head(rows)).err # OK THEN update(v, Head(rows))
  ELSE UpdateEach(update(v, Head(rows)).self, Tail(rows))

(* the events of the call that are keys of the table, in the call's order *)
Present(events, tbl) == SelectSeq(events, LAMBDA e : e \in DOMAIN tbl)

(* C3: update_from_events takes the events in order, updates with the     *)
(* table's row of every event that is a key of the table, and passes over  *)
(* an event that is not a key without an error and without a change to     *)
(* the vector or the table: the vector after the call is the one that      *)
(* update gives over the events that are keys, in order.                   *)
C3_UpdateFromEvents ==
  [][op' = "update_from_events" =>
       /\ weights' = UpdateEach(self, [i \in DOMAIN Present(arg'.events, events_odds) |->
                                          events_odds[Present(arg'.events, events_odds)[i]]]).self.w
       /\ err' = UpdateEach(self, [i \in DOMAIN Present(arg'.events, events_odds) |->
                                     events_odds[Present(arg'.events, events_odds)[i]]]).err
       /\ labels' = labels
       /\ DOMAIN events_odds' = DOMAIN events_odds
       /\ Present(arg'.events, events_odds) = <<>> =>
            (err' = OK /\ UNCHANGED <<weights, labels, events_odds>>)]_vars

(* a call that passed over an event outside the table and then updated     *)
(* with the row of one inside                                              *)
C3_SkippedThenUpdated ==
  /\ op = "update_from_events"
  /\ err = OK
  /\ Len(arg.events) = 2
  /\ arg.events[1] \notin DOMAIN events_odds
  /\ arg.events[2] \in DOMAIN events_odds
  /\ Len(weights) = 2
  /\ ~ NumEq(weights[1], weights[2])

---------------------------------------------------------------------------
(* The normalizing vector of src/bayesian/__init__.py (weights) and the    *)
(* raw vector of src/bayes.py (raw), given the same prior and the same     *)
(* rows                                                                    *)

InitDual ==
  /\ \E w \in SeqsUpTo(Vals, MaxN) :
       \E b \in {BayesInit(List(w), Some(LabelsOf(Len(w)))).obj} :
          /\ ~ IsZero(Sum(b.w))
          /\ weights = b.w
          /\ raw = b.w
          /\ labels = b.labels
  /\ events_odds = [e \in {} |-> List(<<>>)]
  /\ op = "init"
  /\ arg = NoArg
  /\ ret = NoRet
  /\ err = OK
  /\ todo = <<>>
  /\ steps = 0

raw_self == Bayes(raw, labels)

UpdateBoth ==
  /\ steps < MaxSteps
  /\ \E v \in [DOMAIN weights -> Vals] :
       \E r \in {update(self, List(v))}, q \in {raw_update(raw_self, List(v))} :
          /\ steps' = steps + 1
          /\ op' = "update"
          /\ arg' = [event |-> List(v)]
          /\ weights' = r.self.w
          /\ raw' = q.self.w
          /\ err' = r.err
          /\ ret' = NoRet
          /\ UNCHANGED <<labels, events_odds, todo>>

MostLikelyBoth ==
  /\ op = "update"
  /\ \E cutoff \in Cutoffs :
       \E r \in {most_likely(self, cutoff)}, q \in {most_likely(raw_self, cutoff)} :
          /\ op' = "most_likely"
          /\ arg' = [cutoff |-> cutoff]
          /\ ret' = [normalizing |-> [ret |-> r.ret, err |-> r.err],
                     raw |-> [ret |-> q.ret, err |-> q.err]]
          /\ UNCHANGED <<weights, raw, labels, events_odds, err, todo, steps>>

NextDual ==
  \/ UpdateBoth
  \/ MostLikelyBoth

SpecDual == InitDual /\ [][NextDual]_vars

---------------------------------------------------------------------------
(* classify(instance, classes_instances), one statement or one turn of     *)
(* the loop of update_from_events at a time                                *)

MaxWords == 2

LongRun == 54

Words == {"x", "y"}

Instances == SeqsUpTo(Words, MaxWords)

(* the instances of one class: none, one, or one given twice *)
Trainings == {<<>>} \cup {<<i>> : i \in Instances} \cup {<<i, i>> : i \in Instances}

ClassesInstances ==
  UNION {[C -> Trainings] : C \in {{"a"}, {"b"}, {"a", "b"}}}

(* an instance of one event repeated *)
Repeated(e, n) == [i \in 1..n |-> e]

(* the calls: every short instance against every training set, and a long  *)
(* instance against the training sets of one instance a class              *)
Classified ==
  {[instance |-> i, classes_instances |-> c] : i \in Instances, c \in ClassesInstances}
  \cup {[instance |-> Repeated("x", LongRun), classes_instances |-> c] :
          c \in [{"a", "b"} -> {<<<<"x">>>>, <<<<"y">>>>, <<<<"x", "y">>>>}]}

InitClassify ==
  /\ op = "classify"
  /\ arg \in Classified
  /\ weights = <<>>
  /\ labels = <<>>
  /\ events_odds = [e \in {} |-> List(<<>>)]
  /\ ret = NoRet
  /\ err = OK
  /\ raw = <<>>
  /\ todo = <<>>
  /\ steps = 0

(* model = Bayes.extract_events_odds(classes_instances, extractor) *)
ExtractEventsOdds ==
  /\ op = "classify"
  /\ op' = "extract_events_odds"
  /\ events_odds' = extract_events_odds(arg.classes_instances)
  /\ UNCHANGED <<weights, labels, arg, ret, err, raw, todo, steps>>

(* b = Bayes({class_: 1.0 for class_ in classes_instances}) *)
Prior ==
  /\ op = "extract_events_odds"
  /\ \E r \in {BayesInit(Dict([c \in DOMAIN arg.classes_instances |-> PyFloat(1, 1)]), None)} :
        /\ weights' = r.obj.w
        /\ labels' = r.obj.labels
        /\ err' = r.err
  /\ op' = "update_from_events"
  /\ todo' = arg.instance
  /\ UNCHANGED <<events_odds, arg, ret, raw, steps>>

(* one turn of the loop of b.update_from_events(extractor(instance), model) *)
ClassifyEvent ==
  /\ op = "update_from_events"
  /\ err = OK
  /\ todo # <<>>
  /\ \E r \in {update_from_events_step(self, Head(todo), events_odds)} :
        /\ weights' = r.self.w
        /\ events_odds' = r.tbl
        /\ err' = r.err
  /\ todo' = Tail(todo)
  /\ UNCHANGED <<labels, op, arg, ret, raw, steps>>

(* return b.most_likely() *)
ClassifyMostLikely ==
  /\ op = "update_from_events"
  /\ err = OK
  /\ todo = <<>>
  /\ \E r \in {most_likely(self, PyFloat(0, 1))} :
        /\ ret' = r.ret
        /\ err' = r.err
  /\ op' = "most_likely"
  /\ UNCHANGED <<weights, labels, events_odds, arg, raw, todo, steps>>

NextClassify ==
  \/ ExtractEventsOdds
  \/ Prior
  \/ ClassifyEvent
  \/ ClassifyMostLikely

SpecClassify == InitClassify /\ [][NextClassify]_vars

AllPositive(w) == \A i \in DOMAIN w : ~ IsZero(w[i])

(* the row the next turn of the loop reads is positive for every class *)
NextRowPositive ==
  (op = "update_from_events" /\ todo # <<>> /\ Head(todo) \in DOMAIN events_odds) =>
    /\ cast(self, events_odds[Head(todo)]).err = OK
    /\ Len(cast(self, events_odds[Head(todo)]).obj.w) = Len(labels)
    /\ AllPositive(cast(self, events_odds[Head(todo)]).obj.w)

(* the call ends with one of the classes *)
ReturnsAClass ==
  /\ err = OK
  /\ op = "most_likely" => (ret.kind = "label" /\ ret.v \in DOMAIN arg.classes_instances)

(* C7: every row read from the model is positive for every class, so the   *)
(* belief keeps a positive weight for every class after every update, and  *)
(* the call returns one of the classes, never None.                        *)
C7_EveryClassStaysPositive ==
  /\ NextRowPositive
  /\ op \in {"update_from_events", "most_likely"} => AllPositive(weights)
  /\ ReturnsAClass

(* a call that returned a class after a weight was rounded to zero *)
C7_ReturnedAfterUnderflow ==
  /\ op = "most_likely"
  /\ ret.kind = "label"
  /\ ~ AllPositive(weights)

=============================================================================
